---- MODULE Spec2Model ----
(***************************************************************************)
(* Meraki -> Snipe-IT sync: the sync driver of main.py, the device mapper, *)
(* and the destination client of snipe_it.py (entity cache, get-or-create  *)
(* of categories and models, asset search, asset create/update, and the    *)
(* retry loop around every destination request).  The destination and the  *)
(* source are the environment: every request is answered by a response the *)
(* environment picks (success, 429 with or without Retry-After, or another *)
(* error status).  One action is one step of the single thread: one        *)
(* request/response of a retry loop, or one straight-line piece of driver  *)
(* code.                                                                   *)
(***************************************************************************)
EXTENDS Integers, Sequences, FiniteSets, TLC

(* ------------------------------ bounds --------------------------------- *)
\* longest device list the source returns
MaxDevices == 2
\* number of destination calls that the destination rate-limits (answers with 429 at
\* least once) in one run
MaxRateLimited == 1
\* number of other error responses the destination gives in one run
MaxErrors == 1
\* number of responses the code cannot read: a 200/201 body without the id, a 429 whose
\* Retry-After is not a number (specification SpecMalformed)
MaxMalformed == 1
\* number of sync jobs the scheduler process runs (specification SpecScheduler)
MaxRuns == 2

(* ------------------------- program constants --------------------------- *)
MaxRetries == 3
DefaultRetryAfter == 10
ReadyToDeploy == 2
TooManyRequests == 429
HttpOk == 200
HttpCreated == 201

\* Python's None for a string-valued field, and for an id
None == "<None>"
NoId == 0

\* Python truthiness of a string-or-None value, and of an id-or-None value
Truthy(v) == v # None /\ v # ""
IdTruthy(i) == i # NoId

\* dict.get(field) of a device record: None when the field is absent
Get(d, f) == IF f \in DOMAIN d THEN d[f] ELSE None

\* dict.pop(field, None) on a copy
Pop(d, f) == [g \in DOMAIN d \ {f} |-> d[g]]

(* ----------------------------- source ---------------------------------- *)
\* the device records the source may return (fields as in the Meraki API)
Devices ==
  { [name |-> "AP1", serial |-> "Q1", model |-> "MR", productType |-> "wireless",
     mac |-> "aa:bb", networkId |-> "N_1"],
    [name |-> "AP2", serial |-> "Q11", model |-> "MR36", productType |-> "wireless",
     mac |-> "cc:dd", networkId |-> "N_1"],
    [name |-> "AP3", model |-> "MR", productType |-> "wireless",
     mac |-> "ee:ff", networkId |-> "N_2"],
    [name |-> "AP4", serial |-> "Q1", productType |-> "wireless",
     mac |-> "aa:bb", networkId |-> "N_1"],
    [name |-> "AP5", serial |-> "Q11", model |-> "MR36", productType |-> "",
     mac |-> "cc:dd", networkId |-> "N_1"] }

RECURSIVE SeqsUpTo(_, _)
SeqsUpTo(S, n) ==
  IF n = 0 THEN {<<>>}
  ELSE LET shorter == SeqsUpTo(S, n - 1)
       IN  shorter \cup {Append(s, x) : s \in {t \in shorter : Len(t) = n - 1}, x \in S}

DeviceLists == SeqsUpTo(Devices, MaxDevices)

(* --------------------------- destination ------------------------------- *)
\* the destination's text search: a row matches when the query occurs in it
Contains(hay, needle) ==
  /\ hay # None
  /\ \E i \in 0..(Len(hay) - Len(needle)) : SubSeq(hay, i + 1, i + Len(needle)) = needle

MaxOf(S) == IF S = {} THEN 0 ELSE CHOOSE m \in S : \A n \in S : n <= m
MinOf(S) == CHOOSE m \in S : \A n \in S : m <= n
FreshId(rows) == MaxOf({r.id : r \in rows}) + 1

\* cache_key = f"{entity_type}:{name}"
CacheKey(etype, name) == etype \o ":" \o name

\* every cache key a device of the source can ask for
KeyUniverse ==
  {CacheKey("categories", d.productType) : d \in {x \in Devices : "productType" \in DOMAIN x}}
    \cup {CacheKey("models", d.model) : d \in {x \in Devices : "model" \in DOMAIN x}}

\* what the destination may hold before the run
WirelessCategory ==
  [id |-> 1, etype |-> "categories", name |-> "wireless", category_type |-> "asset"]
MR36Model == [id |-> 1, etype |-> "models", name |-> "MR36", category_id |-> 1]
ExistingAsset(tag, serial) ==
  [id |-> 1, name |-> "old", serial |-> serial, asset_tag |-> tag, model_id |-> 1,
   category |-> 1, status_id |-> 4, purchase_date |-> None, purchase_cost |-> None,
   notes |-> "entered by hand"]

InitialDestinations ==
  { [entities |-> {}, assets |-> {}],
    [entities |-> {WirelessCategory, MR36Model}, assets |-> {ExistingAsset("Q11", "Q11")}],
    [entities |-> {WirelessCategory, MR36Model}, assets |-> {ExistingAsset("T7", "Q1")}] }

\* responses other than success and 429
ErrorResponses ==
  { [status |-> 404, retry_after |-> None, text |-> "Not Found"],
    [status |-> 500, retry_after |-> None, text |-> "Server Error"] }

\* Retry-After header of a 429 response: absent, or a number of seconds
RetryAfterHeaders == {None, "2"}

\* a Retry-After header in its other HTTP form, a date
UnparsableRetryAfter == "Wed, 21 Oct 2026 07:28:00 GMT"

\* a 200 response whose body does not carry the id: a search row without "id", or a
\* create answered {"status": "error", "payload": null}
MalformedResponses == {[status |-> HttpOk, retry_after |-> None, text |-> "no id"]}

VARIABLES
  pc,               \* position of the single thread
  cache,            \* snipe_it._entity_cache
  cacheInitialized, \* snipe_it._cache_initialized
  prewarmCalls,     \* number of calls of _initialize_cache in this run
  entities,         \* destination: categories and models
  assets,           \* destination: hardware
  fetched,          \* device_details(): "pending", "ok" or "failed"
  devices,          \* the list device_details() returned
  idx,              \* enumerate index of the device being processed (0 before the loop)
  stats,            \* SyncStatistics
  exitStatus,       \* process exit status
  summaries,        \* number of print_summary() calls
  ctx,              \* locals of map_meraki_to_snipeit / post_hardware_to_snipe_it
  call,             \* the destination call in flight (its retry loop)
  lastCall,         \* the destination call that completed last
  searchRows,       \* rows of the last 200 search response
  lastResult,       \* what the last processed device ended with
  outcomes,         \* per processed device: success and branch taken
  creates,          \* per cache key: entity create requests issued / answered with success
  returned,         \* per cache key: the ids get_or_create_entity returned
  nLimited,         \* destination calls rate-limited so far
  nErr,             \* other error responses given so far
  malformedLeft,    \* unreadable responses the destination may still give
  throttled,        \* the destination answers every request with 429
  run,              \* number of the sync job running in this process (1 for main.py)
  initial           \* the destination as it was when the process started

vars ==
  <<pc, cache, cacheInitialized, prewarmCalls, entities, assets, fetched, devices, idx,
    stats, exitStatus, summaries, ctx, call, lastCall, searchRows, lastResult, outcomes,
    creates, returned, nLimited, nErr, malformedLeft, throttled, run, initial>>

(* ------------------------- main.py: statistics ------------------------- *)
NewStatistics ==
  [total_devices |-> 0, successful |-> 0, failed |-> 0, updated |-> 0, created |-> 0,
   meraki |-> 1, snipe_it_searches |-> 0, snipe_it_creates |-> 0, snipe_it_updates |-> 0]

\* action = response.get("action", "unknown")
ReportedAction(res) == IF "action" \in DOMAIN res THEN res.action ELSE "unknown"

\* mutant of StatsAfterResult: a failure result is not counted
StatsAfterResultFailureLost(st, res) ==
  IF res.success THEN [st EXCEPT !.successful = @ + 1] ELSE st

\* the driver's bookkeeping for a result dict returned by post_hardware_to_snipe_it
StatsAfterResult(st, res) ==
  IF res.success
  THEN LET a == ReportedAction(res)
           s1 == [st EXCEPT !.successful = @ + 1, !.snipe_it_searches = @ + 1]
       IN  IF a = "update"
           THEN [s1 EXCEPT !.updated = @ + 1, !.snipe_it_updates = @ + 1]
           ELSE IF a = "create"
                THEN [s1 EXCEPT !.created = @ + 1, !.snipe_it_creates = @ + 1]
                ELSE s1
  ELSE [st EXCEPT !.failed = @ + 1]

\* mutant of StatsAfterException: the failure is not counted
StatsAfterExceptionNotCounted(st) == st

\* the driver's bookkeeping for an exception raised while processing a device
StatsAfterException(st) == [st EXCEPT !.failed = @ + 1]

(* ------------------------ main.py: device mapper ----------------------- *)
\* mutant of HasRequiredFields: productType is not checked
HasModelOnly(d) == Truthy(Get(d, "model"))
HasRequiredFields(d) == Truthy(Get(d, "model")) /\ Truthy(Get(d, "productType"))

\* mutant of MapPayload: the asset tag is taken from the device name
MapPayloadTagFromName(d, category, model_id) ==
  [name |-> Get(d, "name"),
   serial |-> Get(d, "serial"),
   asset_tag |-> Get(d, "name"),
   model_id |-> model_id,
   category |-> category,
   status_id |-> ReadyToDeploy,
   purchase_date |-> Get(d, "purchase_date"),
   purchase_cost |-> Get(d, "purchase_cost"),
   notes |-> "Imported from Meraki. MAC: " \o Get(d, "mac") \o ", Network ID: "
               \o Get(d, "networkId")]

\* the dict map_meraki_to_snipeit returns
MapPayload(d, category, model_id) ==
  [name |-> Get(d, "name"),
   serial |-> Get(d, "serial"),
   asset_tag |-> Get(d, "serial"),
   model_id |-> model_id,
   category |-> category,
   status_id |-> ReadyToDeploy,
   purchase_date |-> Get(d, "purchase_date"),
   purchase_cost |-> Get(d, "purchase_cost"),
   notes |-> "Imported from Meraki. MAC: " \o Get(d, "mac") \o ", Network ID: "
               \o Get(d, "networkId")]

(* --------------------- snipe_it.py: pure helpers ----------------------- *)
\* mutant of Put: the cache keeps another number than the id the call returns
PutWrongId(c, k, v) == [x \in DOMAIN c \cup {k} |-> IF x = k THEN v + 1 ELSE c[x]]

\* mutant of Put: the write drops the other entries
PutEvicting(c, k, v) == [x \in {k} |-> v]

\* _entity_cache[k] = v
Put(c, k, v) == [x \in DOMAIN c \cup {k} |-> IF x = k THEN v ELSE c[x]]

\* for item in rows: _entity_cache[f"{etype}:{item['name']}"] = item["id"]
\* (rows come in id order; a later row overwrites an earlier one of the same name)
LoadRows(c, etype, rows) ==
  [k \in DOMAIN c \cup {CacheKey(etype, r.name) : r \in rows} |->
     LET same == {r \in rows : CacheKey(etype, r.name) = k}
     IN  IF same # {} THEN MaxOf({r.id : r \in same}) ELSE c[k]]

\* mutant of SearchFields: the serial is searched before the asset tag
SearchFieldsSerialFirst(asset_tag, serial) ==
  (IF Truthy(serial) THEN <<[field |-> "serial", value |-> serial]>> ELSE <<>>)
    \o (IF Truthy(asset_tag) THEN <<[field |-> "asset_tag", value |-> asset_tag]>> ELSE <<>>)

\* search_fields of find_asset_by_tag_or_serial
SearchFields(asset_tag, serial) ==
  (IF Truthy(asset_tag) THEN <<[field |-> "asset_tag", value |-> asset_tag]>> ELSE <<>>)
    \o (IF Truthy(serial) THEN <<[field |-> "serial", value |-> serial]>> ELSE <<>>)

\* mutant of ExactMatches: every row of the search response is taken as a hit
AnyRowMatches(rows, field, value) == rows

\* mutant of ExactMatches: no row of the search response is taken as a hit
NoRowMatches(rows, field, value) == {}

\* the rows a loop "for item in rows: if item.get(field) == value: return item['id']" accepts
ExactMatches(rows, field, value) == {r \in rows : r[field] = value}
FirstRow(rows) == CHOOSE r \in rows : r.id = MinOf({q.id : q \in rows})

\* payload = {"name": name}; payload.update(additional_fields)
EntityPayload(name, extra) == extra @@ [name |-> name]

\* mutant of UpdateBody: status_id is left in the update
UpdateBodyKeepsStatus(p) == Pop(p, "serial")

\* data_to_send of the update branch
UpdateBody(p) == Pop(Pop(p, "serial"), "status_id")

\* mutant of ShouldRetry: the last attempt retries as well
ShouldRetryAlways(attempt) == attempt < MaxRetries

\* attempt < max_retries - 1
ShouldRetry(attempt) == attempt < MaxRetries - 1

DigitValue(ch) ==
  CASE ch = "0" -> 0 [] ch = "1" -> 1 [] ch = "2" -> 2 [] ch = "3" -> 3 [] ch = "4" -> 4
    [] ch = "5" -> 5 [] ch = "6" -> 6 [] ch = "7" -> 7 [] ch = "8" -> 8 [] ch = "9" -> 9

RECURSIVE ParseInt(_)
ParseInt(s) ==
  IF Len(s) = 0 THEN 0
  ELSE 10 * ParseInt(SubSeq(s, 1, Len(s) - 1)) + DigitValue(SubSeq(s, Len(s), Len(s)))

\* what int() accepts: a string of decimal digits
IsDecimal(s) ==
  /\ Len(s) > 0
  /\ \A i \in 1..Len(s) :
       SubSeq(s, i, i) \in {"0", "1", "2", "3", "4", "5", "6", "7", "8", "9"}

\* int(response.headers.get("Retry-After", 10)) raises ValueError
IntRaises(resp) == resp.retry_after # None /\ ~IsDecimal(resp.retry_after)

\* int(response.headers.get("Retry-After", 10))
RetryAfter(resp) ==
  IF resp.retry_after = None THEN DefaultRetryAfter ELSE ParseInt(resp.retry_after)

(* --------------------- destination: request handling ------------------- *)
ListRows(etype) == {e \in entities : e.etype = etype}
SearchEntities(etype, q) == {e \in ListRows(etype) : Contains(e.name, q)}
SearchAssets(q) ==
  {a \in assets : Contains(a.asset_tag, q) \/ Contains(a.serial, q) \/ Contains(a.name, q)}
CreatedEntity(etype, body) == [id |-> FreshId(ListRows(etype)), etype |-> etype] @@ body
CreatedAsset(body) == [id |-> FreshId(assets)] @@ body
UpdatedAsset(a, body) == [f \in DOMAIN a |-> IF f \in DOMAIN body THEN body[f] ELSE a[f]]

\* the responses the destination may give to the next request of call c: a call it has
\* already rate-limited may be rate-limited again
\* the 429 responses, one per Retry-After header
RateLimitResponses(headers) ==
  {[status |-> TooManyRequests, retry_after |-> h, text |-> "Too Many Requests"] :
     h \in headers}

Responses(c, successStatuses) ==
  IF throttled THEN RateLimitResponses(RetryAfterHeaders) ELSE
  {[status |-> s, retry_after |-> None, text |-> "ok"] : s \in successStatuses}
    \cup (IF c.attempts > 0 \/ nLimited < MaxRateLimited
          THEN RateLimitResponses(
                 RetryAfterHeaders
                   \cup (IF malformedLeft > 0 THEN {UnparsableRetryAfter} ELSE {}))
          ELSE {})
    \cup (IF nErr < MaxErrors THEN ErrorResponses ELSE {})

\* the responses to a request of get_or_create_entity, whose code reads an id from the body
EntityResponses(c, successStatuses) ==
  Responses(c, successStatuses) \cup (IF malformedLeft > 0 THEN MalformedResponses ELSE {})

\* result.get("id") of a row that has no "id"
WithoutId(rows) == {[r EXCEPT !.id = NoId] : r \in rows}

Counted(c, resp) ==
  /\ nLimited' = nLimited + (IF resp.status = TooManyRequests /\ c.attempts = 0 /\ ~throttled
                             THEN 1 ELSE 0)
  /\ throttled' = throttled
  /\ nErr' = nErr + (IF resp \in ErrorResponses THEN 1 ELSE 0)
  /\ malformedLeft' =
       malformedLeft - (IF resp \in MalformedResponses \/ IntRaises(resp) THEN 1 ELSE 0)

(* ---------------------- destination call records ----------------------- *)
NoResponse == [status |-> 0, retry_after |-> None, text |-> ""]

\* the retry loop of one destination call: the device it is made for, the requests
\* issued so far, how many of them were answered 429, the sleeps taken so far and the
\* length of the last one; once it has ended, how it ended
Idle ==
  [op |-> "none", dev |-> 0, key |-> None, body |-> <<>>, attempts |-> 0, n429 |-> 0,
   sleeps |-> 0, lastSleep |-> 0, outcome |-> "idle", id |-> NoId, failure |-> NoResponse]

\* params={"search": value} of a search request
SearchParams(value) == [search |-> value]

\* a destination call about to issue its first request
NewCall(op, key, body) == [Idle EXCEPT !.op = op, !.dev = idx, !.key = key, !.body = body,
                                       !.outcome = "pending"]

\* one more request of the retry loop was issued and answered by resp
Issued(c, resp) ==
  [c EXCEPT !.attempts = @ + 1,
            !.n429 = @ + (IF resp.status = TooManyRequests THEN 1 ELSE 0)]

\* mutant of Slept: the retry starts the loop over, forgetting the attempts made
SleptRestarting(c, resp) ==
  [c EXCEPT !.attempts = 0, !.n429 = 0, !.sleeps = 1, !.lastSleep = RetryAfter(resp)]

\* time.sleep(retry_after)
Slept(c, resp) == [c EXCEPT !.sleeps = @ + 1, !.lastSleep = RetryAfter(resp)]

\* the call ended: "ok" with the id it yielded (if any), or "rate_limited"
Completed(c, outcome, id) == [c EXCEPT !.outcome = outcome, !.id = id, !.lastSleep = 0]

\* the call ended on a response that is neither success nor 429
Failed(c, resp) == [c EXCEPT !.outcome = "error", !.failure = resp, !.lastSleep = 0]

(* ----------------------- errors and result dicts ----------------------- *)
NoResult == [kind |-> "none"]
Raised(e) == [kind |-> "exception", value |-> e]
Returned(r) == [kind |-> "result", value |-> r]

ValidationError == [type |-> "ValueError", what |-> "missing required fields"]
NoModelIdError == [type |-> "Exception", what |-> "model id"]
\* raise Exception(f"Rate limit exceeded after {max_retries} retries ...")
RateLimitError == [type |-> "Exception", what |-> "rate limit", retries |-> MaxRetries]
\* raise Exception(f"Failed to ...: {response.status_code} - {response.text}")
ApiError(resp) ==
  [type |-> "Exception", what |-> "api", status_code |-> resp.status, text |-> resp.text]
\* post_response.json()["payload"]["id"] on a body without payload or id
MalformedError == [type |-> "TypeError", what |-> "payload id"]
\* int() of a Retry-After header that is not a decimal number
RetryAfterError == [type |-> "ValueError", what |-> "invalid literal for int()"]
\* the global snipe_it is not bound where the scheduler's exec defines the mapper
NameError == [type |-> "NameError", what |-> "snipe_it"]

\* the result dicts of post_hardware_to_snipe_it
SuccessResult(data) == [success |-> TRUE, data |-> data]
RateLimitResult ==
  [success |-> FALSE, status_code |-> TooManyRequests, error |-> "Rate limit exceeded"]
\* mutant of FailureResult: the response body is dropped
FailureResultNoBody(resp) == [success |-> FALSE, status_code |-> resp.status, error |-> ""]
FailureResult(resp) == [success |-> FALSE, status_code |-> resp.status, error |-> resp.text]

(* ------------------------------ Init ----------------------------------- *)
NoCtx ==
  [etype |-> "none", name |-> None, extra |-> <<>>, category |-> NoId, model_id |-> NoId,
   payload |-> <<>>, fields |-> <<>>, fi |-> 0, asset_id |-> NoId]

InitProcess ==
  /\ pc = "init"
  /\ cache = <<>>
  /\ cacheInitialized = FALSE
  /\ prewarmCalls = 0
  /\ \E d \in InitialDestinations : entities = d.entities /\ assets = d.assets /\ initial = d
  /\ fetched = "pending"
  /\ devices = <<>>
  /\ idx = 0
  /\ stats = NewStatistics
  /\ exitStatus = 0
  /\ summaries = 0
  /\ ctx = NoCtx
  /\ call = Idle
  /\ lastCall = Idle
  /\ searchRows = {}
  /\ lastResult = NoResult
  /\ outcomes = <<>>
  /\ creates = [k \in KeyUniverse |-> [issued |-> 0, ok |-> 0]]
  /\ returned = [k \in KeyUniverse |-> {}]
  /\ nLimited = 0
  /\ nErr = 0
  /\ run = 1

\* the destination answers every 200/201 with a well-formed body
Init == InitProcess /\ malformedLeft = 0 /\ throttled = FALSE

\* the destination may answer with success responses that lack the id, and with 429
\* responses whose Retry-After is a date
InitMalformed == InitProcess /\ malformedLeft = MaxMalformed /\ throttled = FALSE

\* the destination may be one that answers 429 to every request, for the whole run; it
\* starts empty, and the update branch is taken for a device the source lists twice
InitLive ==
  /\ InitProcess
  /\ malformedLeft = 0
  /\ throttled \in BOOLEAN
  /\ entities = {}
  /\ assets = {}

destVars == <<entities, assets>>
envVars == <<nLimited, nErr, malformedLeft, throttled>>
runVars == <<fetched, devices, exitStatus, summaries, run, initial>>
cacheVars == <<cache, cacheInitialized, prewarmCalls>>

(* --------------------- snipe_it._initialize_cache ---------------------- *)
\* how each of the two bulk-list requests ends: 200 with all rows loaded, another status,
\* an exception at the request or in response.json(), or an exception at a row
PrewarmOutcomes == {"ok", "non200", "exception", "parse_error"}
Raises(out) == out \in {"exception", "parse_error"}

\* how a bulk-list request can end at this destination: a 429 is a status other than 200
PrewarmAnswers == IF throttled THEN {"non200"} ELSE PrewarmOutcomes

\* the rows loaded before the row at which item['name'] / item['id'] raised
Prefixes(rows) == {{r \in rows : r.id < n} : n \in {r.id : r \in rows}}

\* the cache after one bulk-list request that ended with out
LoadOutcomes(c, etype, out) ==
  CASE out = "ok" -> {LoadRows(c, etype, ListRows(etype))}
    [] out = "parse_error" -> {LoadRows(c, etype, p) : p \in Prefixes(ListRows(etype))}
    [] OTHER -> {c}

\* mutant of InitializedAfter: the except branch leaves the flag unset
InitializedOnSuccess(raised) == ~raised

\* _cache_initialized = True, at the end of the try block and in the except branch
InitializedAfter(raised) == TRUE

InitializeCache ==
  /\ pc = "init"
  /\ prewarmCalls' = prewarmCalls + 1
  /\ IF cacheInitialized
     THEN UNCHANGED <<cache, cacheInitialized>>
     ELSE \E catOut \in PrewarmAnswers, modOut \in PrewarmAnswers :
            \E c1 \in LoadOutcomes(cache, "categories", catOut) :
              \E c2 \in (IF Raises(catOut) THEN {c1}
                          ELSE LoadOutcomes(c1, "models", modOut)) :
                /\ cache' = c2
                /\ cacheInitialized' = InitializedAfter(Raises(catOut) \/ Raises(modOut))
  /\ pc' = "fetch"
  /\ UNCHANGED <<destVars, envVars, runVars, idx, stats, ctx, call, lastCall, searchRows,
                 lastResult, outcomes, creates, returned>>

(* ------------------- main.py: fetch, loop and summary ------------------ *)
\* mutant of FatalExitStatus: the handler does not call exit(1)
ExitStatusUnset == exitStatus

\* exit(1) of the outer handler
FatalExitStatus == 1

FetchDevices ==
  /\ pc = "fetch"
  /\ \/ \* device_details() raises: the outer handler prints the summary and exits
        /\ fetched' = "failed"
        /\ summaries' = summaries + 1
        /\ exitStatus' = FatalExitStatus
        /\ pc' = "done"
        /\ UNCHANGED <<devices, stats>>
     \/ \E ds \in DeviceLists :
          /\ fetched' = "ok"
          /\ devices' = ds
          /\ IF ds = <<>>
             THEN /\ summaries' = summaries + 1
                  /\ pc' = "done"
                  /\ UNCHANGED stats
             ELSE /\ stats' = [stats EXCEPT !.total_devices = Len(ds)]
                  /\ pc' = "loop"
                  /\ UNCHANGED summaries
          /\ UNCHANGED exitStatus
  /\ UNCHANGED <<cacheVars, destVars, envVars, idx, ctx, call, lastCall, searchRows,
                 lastResult, outcomes, creates, returned, run, initial>>

\* mutant of HasNext: the loop stops one device early
HasNextOffByOne(i, ds) == i < Len(ds) - 1

\* enumerate(devices, 1): the index of the next device, and whether there is one
NextIndex(i) == i + 1
HasNext(i, ds) == i < Len(ds)

LoopNext ==
  /\ pc = "loop"
  /\ IF HasNext(idx, devices)
     THEN /\ idx' = NextIndex(idx)
          /\ pc' = "map"
          /\ UNCHANGED summaries
     ELSE /\ summaries' = summaries + 1
          /\ pc' = "done"
          /\ UNCHANGED idx
  /\ UNCHANGED <<cacheVars, destVars, envVars, fetched, devices, exitStatus, stats, ctx,
                 call, lastCall, searchRows, lastResult, outcomes, creates, returned, run,
                 initial>>

Device == devices[idx]

\* except Exception as device_error: stats.failed += 1; continue
DeviceRaised(e) ==
  /\ stats' = StatsAfterException(stats)
  /\ lastResult' = Raised(e)
  /\ outcomes' = Append(outcomes, [index |-> idx, success |-> FALSE, branch |-> "none"])
  /\ pc' = "loop"

\* response = post_hardware_to_snipe_it(...); if response["success"]: ... else: ...
DeviceReturned(r, branch) ==
  /\ stats' = StatsAfterResult(stats, r)
  /\ lastResult' = Returned(r)
  /\ outcomes' = Append(outcomes, [index |-> idx, success |-> r.success, branch |-> branch])
  /\ pc' = "loop"

(* ------------------- main.py: map_meraki_to_snipeit -------------------- *)
\* mutant of ModelFields: the model is created without the resolved category
ModelFieldsNoCategory(category) == [category_id |-> NoId]

\* additional_fields of the two get_or_create_entity calls
CategoryFields == [category_type |-> "asset"]
ModelFields(category) == [category_id |-> category]

MapDevice ==
  /\ pc = "map"
  /\ IF ~HasRequiredFields(Device)
     THEN /\ DeviceRaised(ValidationError)
          /\ UNCHANGED ctx
     ELSE /\ ctx' = [NoCtx EXCEPT !.etype = "categories",
                                  !.name = Get(Device, "productType"),
                                  !.extra = CategoryFields]
          /\ pc' = "entity_lookup"
          /\ UNCHANGED <<stats, lastResult, outcomes>>
  /\ UNCHANGED <<cacheVars, destVars, envVars, runVars, idx, call, lastCall, searchRows,
                 creates, returned>>

\* get_or_create_entity returns v to map_meraki_to_snipeit, which goes on to the model,
\* or builds the payload and enters post_hardware_to_snipe_it / find_asset_by_tag_or_serial
ReturnEntity(v) ==
  /\ returned' = [returned EXCEPT ![CacheKey(ctx.etype, ctx.name)] = @ \cup {v}]
  /\ IF ctx.etype = "categories"
     THEN /\ ctx' = [ctx EXCEPT !.category = v, !.etype = "models",
                                !.name = Get(Device, "model"),
                                !.extra = ModelFields(v)]
          /\ pc' = "entity_lookup"
          /\ call' = Idle
          /\ UNCHANGED <<stats, lastResult, outcomes>>
     ELSE IF ~IdTruthy(v)
          THEN /\ DeviceRaised(NoModelIdError)
               /\ call' = Idle
               /\ UNCHANGED ctx
          ELSE LET p == MapPayload(Device, ctx.category, v)
                   fs == SearchFields(p.asset_tag, p.serial)
               IN  /\ ctx' = [ctx EXCEPT !.model_id = v, !.payload = p, !.fields = fs,
                                         !.fi = 1, !.asset_id = NoId]
                   /\ IF fs = <<>>
                      THEN /\ pc' = "asset_create"
                           /\ call' = NewCall("asset_create", p.asset_tag, p)
                      ELSE /\ pc' = "asset_search"
                           /\ call' = NewCall("asset_search", fs[1].field,
                                           SearchParams(fs[1].value))
                   /\ UNCHANGED <<stats, lastResult, outcomes>>

(* ------------------- snipe_it.get_or_create_entity --------------------- *)
\* mutant of CacheHit: the cache is never consulted
CacheHitNever(c, key) == FALSE

\* if cache_key in _entity_cache
CacheHit(c, key) == key \in DOMAIN c

EntityLookup ==
  /\ pc = "entity_lookup"
  /\ LET key == CacheKey(ctx.etype, ctx.name)
     IN  IF CacheHit(cache, key)
         THEN ReturnEntity(cache[key])
         ELSE /\ pc' = "entity_search"
              /\ call' = NewCall("entity_search", key, SearchParams(ctx.name))
              /\ UNCHANGED <<ctx, stats, lastResult, outcomes, returned>>
  /\ UNCHANGED <<cacheVars, destVars, envVars, runVars, idx, lastCall, searchRows, creates>>

EntitySearchAttempt ==
  /\ pc = "entity_search"
  /\ \E resp \in EntityResponses(call, {HttpOk}) :
       LET c == Issued(call, resp)
           attempt == call.attempts
           key == CacheKey(ctx.etype, ctx.name)
           found == SearchEntities(ctx.etype, ctx.name)
           rows == IF resp \in MalformedResponses THEN WithoutId(found) ELSE found
           hits == ExactMatches(rows, "name", ctx.name)
       IN  /\ Counted(call, resp)
           /\ IF resp.status = TooManyRequests
              THEN IF IntRaises(resp)
                   THEN \* int(...) raises before the attempt number is looked at
                        /\ lastCall' = Completed(c, "value_error", NoId)
                        /\ call' = Idle
                        /\ DeviceRaised(RetryAfterError)
                        /\ UNCHANGED <<cache, ctx, searchRows, returned>>
                   ELSE IF ShouldRetry(attempt)
                   THEN /\ call' = Slept(c, resp)
                        /\ UNCHANGED <<pc, cache, ctx, lastCall, searchRows, stats,
                                       lastResult, outcomes, returned>>
                   ELSE /\ lastCall' = Completed(c, "rate_limited", NoId)
                        /\ call' = Idle
                        /\ DeviceRaised(RateLimitError)
                        /\ UNCHANGED <<cache, ctx, searchRows, returned>>
              ELSE IF resp.status = HttpOk
                   THEN /\ searchRows' = rows
                        /\ IF hits # {}
                           THEN /\ cache' = Put(cache, key, FirstRow(hits).id)
                                /\ lastCall' = Completed(c, "ok", FirstRow(hits).id)
                                /\ ReturnEntity(FirstRow(hits).id)
                           ELSE /\ lastCall' = Completed(c, "ok", NoId)
                                /\ call' = NewCall("entity_create", key,
                                                   EntityPayload(ctx.name, ctx.extra))
                                /\ pc' = "entity_create"
                                /\ UNCHANGED <<cache, ctx, stats, lastResult, outcomes,
                                               returned>>
                   ELSE /\ lastCall' = Failed(c, resp)
                        /\ call' = Idle
                        /\ DeviceRaised(ApiError(resp))
                        /\ UNCHANGED <<cache, ctx, searchRows, returned>>
  /\ UNCHANGED <<cacheInitialized, prewarmCalls, destVars, runVars, idx, creates>>

EntityCreateAttempt ==
  /\ pc = "entity_create"
  /\ \E resp \in EntityResponses(call, {HttpOk, HttpCreated}) :
       LET c == Issued(call, resp)
           attempt == call.attempts
           key == CacheKey(ctx.etype, ctx.name)
           new == CreatedEntity(ctx.etype, call.body)
           ok == resp.status \in {HttpOk, HttpCreated} /\ resp \notin MalformedResponses
       IN  /\ Counted(call, resp)
           /\ creates' = [creates EXCEPT ![key] =
                            [issued |-> @.issued + 1, ok |-> @.ok + (IF ok THEN 1 ELSE 0)]]
           /\ IF resp.status = TooManyRequests
              THEN IF IntRaises(resp)
                   THEN \* int(...) raises before the attempt number is looked at
                        /\ lastCall' = Completed(c, "value_error", NoId)
                        /\ call' = Idle
                        /\ DeviceRaised(RetryAfterError)
                        /\ UNCHANGED <<cache, entities, ctx, returned>>
                   ELSE IF ShouldRetry(attempt)
                   THEN /\ call' = Slept(c, resp)
                        /\ UNCHANGED <<pc, cache, entities, ctx, lastCall, stats,
                                       lastResult, outcomes, returned>>
                   ELSE /\ lastCall' = Completed(c, "rate_limited", NoId)
                        /\ call' = Idle
                        /\ DeviceRaised(RateLimitError)
                        /\ UNCHANGED <<cache, entities, ctx, returned>>
              ELSE IF ok
                   THEN /\ entities' = entities \cup {new}
                        /\ cache' = Put(cache, key, new.id)
                        /\ lastCall' = Completed(c, "ok", new.id)
                        /\ ReturnEntity(new.id)
                   ELSE IF resp \in MalformedResponses
                   THEN \* ["payload"]["id"] raises before anything is cached
                        /\ lastCall' = Completed(c, "malformed", NoId)
                        /\ call' = Idle
                        /\ DeviceRaised(MalformedError)
                        /\ UNCHANGED <<cache, entities, ctx, returned>>
                   ELSE /\ lastCall' = Failed(c, resp)
                        /\ call' = Idle
                        /\ DeviceRaised(ApiError(resp))
                        /\ UNCHANGED <<cache, entities, ctx, returned>>
  /\ UNCHANGED <<cacheInitialized, prewarmCalls, assets, runVars, idx, searchRows>>

(* ---------------- snipe_it.find_asset_by_tag_or_serial ----------------- *)
AssetSearchAttempt ==
  /\ pc = "asset_search"
  /\ \E resp \in Responses(call, {HttpOk}) :
       LET c == Issued(call, resp)
           attempt == call.attempts
           f == ctx.fields[ctx.fi]
           rows == SearchAssets(f.value)
           hits == ExactMatches(rows, f.field, f.value)
       IN  /\ Counted(call, resp)
           /\ IF resp.status = TooManyRequests
              THEN IF IntRaises(resp)
                   THEN \* int(...) raises before the attempt number is looked at
                        /\ lastCall' = Completed(c, "value_error", NoId)
                        /\ call' = Idle
                        /\ DeviceRaised(RetryAfterError)
                        /\ UNCHANGED <<ctx, searchRows>>
                   ELSE IF ShouldRetry(attempt)
                   THEN /\ call' = Slept(c, resp)
                        /\ UNCHANGED <<pc, ctx, lastCall, searchRows, stats, lastResult,
                                       outcomes>>
                   ELSE /\ lastCall' = Completed(c, "rate_limited", NoId)
                        /\ call' = Idle
                        /\ DeviceRaised(RateLimitError)
                        /\ UNCHANGED <<ctx, searchRows>>
              ELSE IF resp.status = HttpOk
                   THEN /\ searchRows' = rows
                        /\ UNCHANGED <<stats, lastResult, outcomes>>
                        /\ IF hits # {}
                           THEN \* return item["id"]; then "if asset_id:" picks the branch
                                /\ lastCall' = Completed(c, "ok", FirstRow(hits).id)
                                /\ ctx' = [ctx EXCEPT !.asset_id = FirstRow(hits).id]
                                /\ IF IdTruthy(FirstRow(hits).id)
                                   THEN /\ call' = NewCall("asset_update", ctx.payload.asset_tag,
                                                           UpdateBody(ctx.payload))
                                        /\ pc' = "asset_update"
                                   ELSE /\ call' = NewCall("asset_create",
                                                           ctx.payload.asset_tag, ctx.payload)
                                        /\ pc' = "asset_create"
                           ELSE /\ lastCall' = Completed(c, "ok", NoId)
                                /\ IF ctx.fi < Len(ctx.fields)
                                   THEN \* no match for this field: search by the next one
                                        /\ ctx' = [ctx EXCEPT !.fi = @ + 1]
                                        /\ call' = NewCall("asset_search",
                                                           ctx.fields[ctx.fi + 1].field,
                                                           SearchParams(ctx.fields[ctx.fi + 1].value))
                                        /\ UNCHANGED pc
                                   ELSE \* return None: the create branch
                                        /\ call' = NewCall("asset_create",
                                                           ctx.payload.asset_tag, ctx.payload)
                                        /\ pc' = "asset_create"
                                        /\ UNCHANGED ctx
                   ELSE /\ lastCall' = Failed(c, resp)
                        /\ call' = Idle
                        /\ DeviceRaised(ApiError(resp))
                        /\ UNCHANGED <<ctx, searchRows>>
  /\ UNCHANGED <<cacheVars, destVars, runVars, idx, creates, returned>>

(* ----------------- snipe_it.post_hardware_to_snipe_it ------------------ *)
AssetUpdateAttempt ==
  /\ pc = "asset_update"
  /\ \E resp \in Responses(call, {HttpOk, HttpCreated}) :
       LET c == Issued(call, resp)
           attempt == call.attempts
           old == CHOOSE a \in assets : a.id = ctx.asset_id
           new == UpdatedAsset(old, call.body)
       IN  /\ Counted(call, resp)
           /\ IF resp.status = TooManyRequests
              THEN IF IntRaises(resp)
                   THEN \* int(...) raises before the attempt number is looked at
                        /\ lastCall' = Completed(c, "value_error", NoId)
                        /\ call' = Idle
                        /\ DeviceRaised(RetryAfterError)
                        /\ UNCHANGED assets
                   ELSE IF ShouldRetry(attempt)
                   THEN /\ call' = Slept(c, resp)
                        /\ UNCHANGED <<pc, assets, lastCall, stats, lastResult, outcomes>>
                   ELSE /\ lastCall' = Completed(c, "rate_limited", NoId)
                        /\ call' = Idle
                        /\ DeviceReturned(RateLimitResult, "update")
                        /\ UNCHANGED assets
              ELSE IF resp.status \in {HttpOk, HttpCreated}
                   THEN /\ assets' = (assets \ {old}) \cup {new}
                        /\ lastCall' = Completed(c, "ok", new.id)
                        /\ call' = Idle
                        /\ DeviceReturned(SuccessResult(new), "update")
                   ELSE /\ lastCall' = Failed(c, resp)
                        /\ call' = Idle
                        /\ DeviceReturned(FailureResult(resp), "update")
                        /\ UNCHANGED assets
  /\ UNCHANGED <<cacheVars, entities, runVars, idx, ctx, searchRows, creates, returned>>

AssetCreateAttempt ==
  /\ pc = "asset_create"
  /\ \E resp \in Responses(call, {HttpOk, HttpCreated}) :
       LET c == Issued(call, resp)
           attempt == call.attempts
           new == CreatedAsset(call.body)
       IN  /\ Counted(call, resp)
           /\ IF resp.status = TooManyRequests
              THEN IF IntRaises(resp)
                   THEN \* int(...) raises before the attempt number is looked at
                        /\ lastCall' = Completed(c, "value_error", NoId)
                        /\ call' = Idle
                        /\ DeviceRaised(RetryAfterError)
                        /\ UNCHANGED assets
                   ELSE IF ShouldRetry(attempt)
                   THEN /\ call' = Slept(c, resp)
                        /\ UNCHANGED <<pc, assets, lastCall, stats, lastResult, outcomes>>
                   ELSE /\ lastCall' = Completed(c, "rate_limited", NoId)
                        /\ call' = Idle
                        /\ DeviceReturned(RateLimitResult, "create")
                        /\ UNCHANGED assets
              ELSE IF resp.status \in {HttpOk, HttpCreated}
                   THEN /\ assets' = assets \cup {new}
                        /\ lastCall' = Completed(c, "ok", new.id)
                        /\ call' = Idle
                        /\ DeviceReturned(SuccessResult(new), "create")
                   ELSE /\ lastCall' = Failed(c, resp)
                        /\ call' = Idle
                        /\ DeviceReturned(FailureResult(resp), "create")
                        /\ UNCHANGED assets
  /\ UNCHANGED <<cacheVars, entities, runVars, idx, ctx, searchRows, creates, returned>>

(* ------------------------ scheduler.run_sync_job ----------------------- *)
\* map_meraki_to_snipeit as defined by exec(open('main.py').read()) inside run_sync_job:
\* its globals are the scheduler module's, where snipe_it is not bound, so the first
\* snipe_it.get_or_create_entity raises NameError once the validation has passed
MapDeviceScheduled ==
  /\ pc = "map"
  /\ IF ~HasRequiredFields(Device)
     THEN DeviceRaised(ValidationError)
     ELSE DeviceRaised(NameError)
  /\ UNCHANGED <<cacheVars, destVars, envVars, runVars, idx, ctx, call, lastCall,
                 searchRows, creates, returned>>

\* the scheduler fires the job again in the same process: main.py's block runs anew
\* (fresh SyncStatistics and locals), the module globals of snipe_it stay as they are
RunSyncJob ==
  /\ pc = "done"
  /\ exitStatus = 0
  /\ run < MaxRuns
  /\ run' = run + 1
  /\ pc' = "init"
  /\ stats' = NewStatistics
  /\ fetched' = "pending"
  /\ devices' = <<>>
  /\ idx' = 0
  /\ summaries' = 0
  /\ prewarmCalls' = 0
  /\ ctx' = NoCtx
  /\ lastResult' = NoResult
  /\ outcomes' = <<>>
  /\ UNCHANGED <<cache, cacheInitialized, destVars, envVars, exitStatus, initial, call,
                 lastCall, searchRows, creates, returned>>

(* --------------------------- specification ----------------------------- *)
Next ==
  \/ InitializeCache
  \/ FetchDevices
  \/ LoopNext
  \/ MapDevice
  \/ EntityLookup
  \/ EntitySearchAttempt
  \/ EntityCreateAttempt
  \/ AssetSearchAttempt
  \/ AssetUpdateAttempt
  \/ AssetCreateAttempt

Spec == Init /\ [][Next]_vars

\* main.py against a destination that may send success responses without an id
SpecMalformed == InitMalformed /\ [][Next]_vars

\* where the program is: the statement, the device of the loop, the entity being
\* looked up or the search field in turn, the iteration of the retry loop in flight;
\* every step changes it
position == <<pc, idx, ctx.etype, ctx.fi, call.attempts, call.sleeps, call.lastSleep>>

\* main.py as a running process: it takes its next step as long as it has one (every
\* request is answered, every sleep returns), also when every answer is a 429
SpecLive == InitLive /\ [][Next]_vars /\ WF_position(Next)

\* python scheduler.py: successive sync jobs in one process
NextScheduler ==
  \/ InitializeCache
  \/ FetchDevices
  \/ LoopNext
  \/ MapDeviceScheduled
  \/ RunSyncJob

SpecScheduler == Init /\ [][NextScheduler]_vars

(* ------------------------------- claims -------------------------------- *)
\* the destination answered every request of the run with success
AllSuccess == nLimited = 0 /\ nErr = 0

\* devices i and i+1 of the list are the same record (so the mapper produces the same
\* payload for both), and both have been reconciled successfully
ReconciledTwice(i) ==
  /\ i + 1 <= Len(outcomes)
  /\ devices[i] = devices[i + 1]
  /\ outcomes[i].success
  /\ outcomes[i + 1].success

AssetsTagged(tag) == {a \in assets : a.asset_tag = tag}

\* C1: reconciling the same mapper payload twice in succession, every request answered
\* with success, leaves exactly one destination asset for it: the second call takes the
\* update branch and issues no second POST /hardware.
C1_ReconcileTwiceOneAsset ==
  \A i \in 1..Len(outcomes) :
    (AllSuccess /\ ReconciledTwice(i))
      => /\ outcomes[i + 1].branch = "update"
         /\ Cardinality(AssetsTagged(Get(devices[i], "serial"))) = 1

\* C2: at the summary of a run whose fetch succeeded, every successful device has been
\* classified as created or as updated: created + updated = successful.
C2_CreatedPlusUpdated ==
  (pc = "done" /\ fetched = "ok") => stats.created + stats.updated = stats.successful

\* C3 (as claimed): all calls of get_or_create_entity for one (entity_type, name) return
\* the same id, and at most one create request is ever issued for it.
C3_AtMostOneCreateRequest ==
  \A k \in KeyUniverse : Cardinality(returned[k]) <= 1 /\ creates[k].issued <= 1

\* C3 (amended): all calls of get_or_create_entity for one (entity_type, name) return the
\* same id, and at most one create request for it succeeds (is answered 200/201 with the
\* id the call caches and returns); after that the key is in the cache.
C3_AtMostOneCreateSucceeds ==
  \A k \in KeyUniverse :
    /\ Cardinality(returned[k]) <= 1
    /\ creates[k].ok <= 1
    /\ creates[k].ok = 1 => k \in DOMAIN cache

\* two devices of the same productType were synced, and the category was created by a
\* call whose first create request was answered 429
C3_Witness ==
  /\ Len(outcomes) = 2
  /\ outcomes[1].success /\ outcomes[2].success
  /\ LET k == CacheKey("categories", devices[1].productType)
     IN  /\ k = CacheKey("categories", devices[2].productType)
         /\ creates[k].issued >= 2
         /\ creates[k].ok = 1
         /\ returned[k] # {}

\* C4: when an entity search is answered 200 and no row has exactly the requested name,
\* no row's id is returned or cached: the call goes on to a create request for
\* {name, ...extra_fields}, and what it then caches and returns is the id of the entity
\* that create made, which is none of the rows' ids.
C4_ExactMatchDiscipline ==
  /\ (/\ lastCall.op = "entity_search"
      /\ lastCall.outcome = "ok"
      /\ ~\E r \in searchRows : r.name = lastCall.body.search)
       => /\ pc = "entity_create"
          /\ call.op = "entity_create"
          /\ call.body.name = lastCall.body.search
          /\ \A f \in DOMAIN ctx.extra : call.body[f] = ctx.extra[f]
          /\ lastCall.key \notin DOMAIN cache
          /\ returned[lastCall.key] = {}
  /\ (lastCall.op = "entity_create" /\ lastCall.outcome = "ok")
       => /\ lastCall.id \notin {r.id : r \in searchRows}
          /\ cache[lastCall.key] = lastCall.id
          /\ returned[lastCall.key] = {lastCall.id}
          /\ \E e \in entities : e.id = lastCall.id /\ e.name = lastCall.body.name

\* a create has succeeded after a search that returned only rows of other names
C4_Witness ==
  /\ lastCall.op = "entity_create"
  /\ lastCall.outcome = "ok"
  /\ searchRows # {}

IsRateLimitFailure(r) ==
  \/ r.kind = "exception" /\ r.value = RateLimitError
  \/ r.kind = "result" /\ r.value = RateLimitResult

\* C5: no destination call issues more than 3 requests; a call that was answered 429
\* fewer than 3 times never ends in a rate-limit failure, and one that ends "ok" did so on
\* the request after its last 429; a call answered 429 on all 3 requests ends in a
\* rate-limit failure, and the device it was made for is counted as failed.
C5_RetryPolicy ==
  /\ call.attempts <= MaxRetries
  /\ lastCall.attempts <= MaxRetries
  /\ call.outcome = "pending" => call.n429 = call.attempts /\ call.attempts < MaxRetries
  /\ lastCall.outcome = "ok"
       => lastCall.n429 < MaxRetries /\ lastCall.attempts = lastCall.n429 + 1
  /\ lastCall.outcome = "error" => lastCall.failure \in ErrorResponses
  /\ lastCall.outcome = "rate_limited" <=> lastCall.n429 = MaxRetries
  /\ lastCall.outcome = "rate_limited"
       => /\ lastCall.dev <= Len(outcomes)
          /\ ~outcomes[lastCall.dev].success
          /\ lastCall.dev = Len(outcomes) => IsRateLimitFailure(lastResult)

\* a call was answered 429 three times
C5_Witness == lastCall.n429 = MaxRetries /\ stats.failed = 1

CarriesStatusAndBody(r, resp) ==
  \/ /\ r.kind = "exception"
     /\ r.value.what = "api"
     /\ r.value.status_code = resp.status
     /\ r.value.text = resp.text
  \/ /\ r.kind = "result"
     /\ ~r.value.success
     /\ r.value.status_code = resp.status
     /\ r.value.error = resp.text

\* C6: a call that receives a response that is neither success nor 429 ends there: that
\* request is its last one, it sleeps only after its 429s, and the device fails with an
\* error that carries the response's status code and body.
C6_NonRetriedFailure ==
  lastCall.outcome = "error"
    => /\ lastCall.failure \in ErrorResponses
       /\ lastCall.attempts = lastCall.n429 + 1
       /\ lastCall.sleeps = lastCall.n429
       /\ lastCall.dev <= Len(outcomes)
       /\ ~outcomes[lastCall.dev].success
       /\ lastCall.dev = Len(outcomes) => CarriesStatusAndBody(lastResult, lastCall.failure)

\* the first response of an asset create or update was an error
C6_Witness ==
  /\ lastCall.outcome = "error"
  /\ lastCall.attempts = 1
  /\ lastCall.op \in {"asset_create", "asset_update"}
  /\ lastCall.dev = Len(outcomes)

Failures == {i \in 1..Len(outcomes) : ~outcomes[i].success}
Successes == {i \in 1..Len(outcomes) : outcomes[i].success}

\* C7: the devices are processed one by one in the order of the list, each exactly once,
\* whatever happened to the earlier ones; every failed device adds exactly 1 to
\* stats.failed and every successful one exactly 1 to stats.successful; the summary is
\* reached only after all N.
C7_BatchIsolation ==
  /\ \A i \in 1..Len(outcomes) : outcomes[i].index = i
  /\ Len(outcomes) <= idx
  /\ idx <= Len(outcomes) + 1
  /\ idx <= Len(devices)
  /\ pc \notin {"init", "fetch", "loop", "done"} => idx = Len(outcomes) + 1
  /\ stats.failed = Cardinality(Failures)
  /\ stats.successful = Cardinality(Successes)
  /\ (pc = "done" /\ fetched = "ok") => Len(outcomes) = Len(devices)

\* the first device failed and the second one was synced
C7_Witness ==
  /\ pc = "done"
  /\ Len(outcomes) = 2
  /\ ~outcomes[1].success
  /\ outcomes[2].success

Missing(v) == v = None \/ v = ""

\* C8: for a device without model or productType the mapper raises the validation error
\* before any destination request: the step changes neither the cache nor the
\* destination nor the call records, counts the device as failed and returns to the loop.
C8_ValidationBeforeAnyRequest ==
  [][(pc = "map" /\ (Missing(Get(Device, "model")) \/ Missing(Get(Device, "productType"))))
       => /\ cache' = cache
          /\ entities' = entities
          /\ assets' = assets
          /\ call' = call
          /\ lastCall' = lastCall
          /\ creates' = creates
          /\ lastResult' = Raised(ValidationError)
          /\ stats'.failed = stats.failed + 1
          /\ stats'.successful = stats.successful
          /\ Len(outcomes') = Len(outcomes) + 1
          /\ pc' = "loop"]_vars

\* a device without productType has been rejected and the loop goes on
C8_Witness ==
  /\ pc = "map"
  /\ idx = 2
  /\ Missing(Get(devices[1], "productType"))
  /\ lastResult = Raised(ValidationError)
  /\ lastCall = Idle

\* C9 (as claimed): FETCHING, then CACHE_WARMING, then PROCESSING, then SUMMARY: the
\* prewarm begins only after the fetch has completed, it happens exactly once and before
\* the first device, and the summary comes after the last device.
C9_FetchThenPrewarm ==
  /\ prewarmCalls > 0 => fetched = "ok"
  /\ prewarmCalls <= 1
  /\ idx > 0 => prewarmCalls = 1
  /\ (summaries > 0 /\ fetched = "ok") => (pc = "done" /\ Len(outcomes) = Len(devices))

\* C9 (amended): CACHE_WARMING, then FETCHING, then PROCESSING, then SUMMARY: the fetch
\* begins only after _initialize_cache has returned, _initialize_cache is called exactly
\* once and before the first device, and the summary comes after the last device.
C9_PrewarmThenFetch ==
  /\ fetched # "pending" => (prewarmCalls = 1 /\ cacheInitialized)
  /\ prewarmCalls <= 1
  /\ idx > 0 => (fetched = "ok" /\ prewarmCalls = 1)
  /\ (summaries > 0 /\ fetched = "ok") => (pc = "done" /\ Len(outcomes) = Len(devices))

\* a run over two devices has printed its summary
C9_Witness ==
  /\ pc = "done"
  /\ fetched = "ok"
  /\ summaries = 1
  /\ Len(devices) = 2

\* C10: a failed fetch ends the run with the summary printed and a non-zero exit status,
\* no device processed and no destination call made; a run whose fetch succeeded ends
\* with the summary printed and exit status 0.
C10_ExitStatus ==
  /\ fetched = "failed"
       => /\ pc = "done"
          /\ exitStatus # 0
          /\ summaries = 1
          /\ idx = 0
          /\ outcomes = <<>>
          /\ call = Idle
          /\ lastCall = Idle
          /\ \A k \in KeyUniverse : creates[k].issued = 0
  /\ fetched = "ok" => exitStatus = 0
  /\ pc = "done" => (fetched # "pending" /\ summaries = 1)

\* the fetch has failed
C10_Witness == fetched = "failed"

\* every cache entry of c is a row of the destination's lists
LoadedFromDestination(c) ==
  \A k \in DOMAIN c : \E e \in entities : CacheKey(e.etype, e.name) = k /\ e.id = c[k]

\* C11: whatever the two bulk-list requests of _initialize_cache do (200, another status,
\* an exception at the request or at a row), the call returns to the driver with
\* _cache_initialized set, the run goes on to the fetch with no exit and no summary, and
\* the cache holds only rows of the destination; afterwards a get_or_create_entity call
\* for a key that is not in the cache starts the per-entity search.
C11_PrewarmBestEffort ==
  [][/\ pc = "init"
          => /\ pc' = "fetch"
             /\ cacheInitialized'
             /\ prewarmCalls' = prewarmCalls + 1
             /\ exitStatus' = exitStatus
             /\ summaries' = summaries
             /\ stats' = stats
             /\ LoadedFromDestination(cache')
     /\ (pc = "entity_lookup" /\ CacheKey(ctx.etype, ctx.name) \notin DOMAIN cache)
          => /\ cacheInitialized
             /\ pc' = "entity_search"
             /\ call'.op = "entity_search"
             /\ call'.key = CacheKey(ctx.etype, ctx.name)
             /\ call'.attempts = 0
             /\ cache' = cache]_vars

\* the prewarm did not load an entity the destination holds, and the per-entity search
\* of the first device found it
C11_Witness ==
  /\ cacheInitialized
  /\ lastCall.op = "entity_search"
  /\ lastCall.outcome = "ok"
  /\ lastCall.id # NoId
  /\ lastCall.dev = 1
  /\ \E e \in initial.entities : CacheKey(e.etype, e.name) = lastCall.key

\* C12: every run of the sync entry point, the scheduler's second and later jobs
\* included, starts with an empty entity cache that its own prewarm will fill
\* (_cache_initialized unset) and with fresh statistics.
C12_FreshStatePerRun ==
  pc = "init" => (cache = <<>> /\ ~cacheInitialized /\ stats = NewStatistics)

AssetWrites == {"asset_update", "asset_create"}

\* the caller's payload is still what the mapper returned for the device
PayloadKept == ctx.payload = MapPayload(devices[idx], ctx.category, ctx.model_id)

\* the body the requests of call c carry, against the caller's payload
BodyShape(c) ==
  /\ c.op = "asset_update"
       => /\ DOMAIN c.body = DOMAIN ctx.payload \ {"serial", "status_id"}
          /\ \A f \in DOMAIN c.body : c.body[f] = ctx.payload[f]
  /\ c.op = "asset_create"
       => /\ c.body = ctx.payload
          /\ "serial" \in DOMAIN c.body
          /\ c.body.status_id = ReadyToDeploy

\* C13: every PUT /hardware/{id} request carries the input payload without serial and
\* status_id and nothing else changed, every POST /hardware request carries the full
\* input payload with its status_id, and the caller's payload is the same during and
\* after the call as the mapper returned it.
C13_PayloadShapePerBranch ==
  /\ call.op \in AssetWrites => (BodyShape(call) /\ PayloadKept)
  /\ (lastCall.op \in AssetWrites /\ lastCall.dev = idx /\ pc = "loop")
       => (BodyShape(lastCall) /\ PayloadKept)

\* an update went through on its second request, after a 429
C13_Witness ==
  /\ lastCall.op = "asset_update"
  /\ lastCall.outcome = "ok"
  /\ lastCall.attempts = 2
  /\ lastCall.dev = idx
  /\ pc = "loop"

\* at most one entity per (type, name)
UniquePerName(ents) ==
  \A e1 \in ents : \A e2 \in ents :
    (e1.etype = e2.etype /\ e1.name = e2.name) => e1.id = e2.id

\* C14: the destination started with at most one entity per (type, name); after any
\* series of prewarm and get_or_create_entity calls of the process, whatever mix of 429,
\* error and success responses they got, it still holds at most one entity per
\* (type, name), and every cache entry maps its key to the id of that entity.
C14_TaxonomyUniqueness ==
  UniquePerName(initial.entities)
    => (UniquePerName(entities) /\ LoadedFromDestination(cache))

\* a run that met a 429 and an error response has created and cached a category
C14_Witness ==
  /\ pc = "done"
  /\ nLimited > 0
  /\ nErr > 0
  /\ \E k \in KeyUniverse : creates[k].ok = 1 /\ creates[k].issued > 1 /\ k \in DOMAIN cache

\* C15: a get_or_create_entity call whose key is in the cache returns the cached id in
\* that step: no search or create request is prepared or issued, the destination and the
\* response budgets are untouched, and the cache is left as it was.
C15_CacheHitCostsNothing ==
  [][(pc = "entity_lookup" /\ CacheKey(ctx.etype, ctx.name) \in DOMAIN cache)
       => /\ returned'[CacheKey(ctx.etype, ctx.name)]
               = returned[CacheKey(ctx.etype, ctx.name)]
                   \cup {cache[CacheKey(ctx.etype, ctx.name)]}
          /\ pc' \notin {"entity_search", "entity_create"}
          /\ call'.op \notin {"entity_search", "entity_create"}
          /\ call'.attempts = 0
          /\ lastCall' = lastCall
          /\ searchRows' = searchRows
          /\ creates' = creates
          /\ entities' = entities
          /\ nLimited' = nLimited
          /\ nErr' = nErr
          /\ cache' = cache]_vars

\* the second device's category came from the cache, where the first device's create
\* had put it
C15_Witness ==
  /\ idx = 2
  /\ pc = "entity_lookup"
  /\ ctx.etype = "models"
  /\ creates[CacheKey("categories", devices[2].productType)].ok = 1
  /\ creates[CacheKey("categories", devices[2].productType)].issued = 1
  /\ outcomes[1].success

\* when the process started the destination had no category of d's productType, no
\* model of d's model name and no asset with d's serial
AbsentAtStart(d) ==
  /\ ~\E e \in initial.entities : e.etype = "categories" /\ e.name = Get(d, "productType")
  /\ ~\E e \in initial.entities : e.etype = "models" /\ e.name = Get(d, "model")
  /\ ~\E a \in initial.assets : a.serial = Get(d, "serial")

\* the first device of the list has just been processed
FirstDeviceDone == Len(outcomes) = 1 /\ idx = 1 /\ pc = "loop"

\* what processing d issued: one category create, one model create that refers to the
\* created category, one asset create with the mapped fields, and no update
CreatePath(d) ==
  LET kc == CacheKey("categories", Get(d, "productType"))
      km == CacheKey("models", Get(d, "model"))
  IN  /\ creates[kc].issued = 1
      /\ creates[km].issued = 1
      /\ kc \in DOMAIN cache
      /\ km \in DOMAIN cache
      /\ \E e \in entities :
           /\ e.etype = "models"
           /\ e.name = Get(d, "model")
           /\ e.id = cache[km]
           /\ e.category_id = cache[kc]
      /\ \E e \in entities :
           e.etype = "categories" /\ e.name = Get(d, "productType") /\ e.id = cache[kc]
      /\ outcomes[1].branch = "create"
      /\ lastCall.op = "asset_create"
      /\ lastCall.attempts = 1
      /\ lastCall.body.asset_tag = Get(d, "serial")
      /\ lastCall.body.serial = Get(d, "serial")
      /\ lastCall.body.status_id = 2
      /\ lastCall.body.model_id = cache[km]
      /\ Contains(lastCall.body.notes, Get(d, "mac"))
      /\ Contains(lastCall.body.notes, Get(d, "networkId"))

SearchedOk(field, value) ==
  /\ lastCall.op = "asset_search"
  /\ lastCall.dev = idx
  /\ lastCall.outcome = "ok"
  /\ lastCall.key = field
  /\ lastCall.body = SearchParams(value)

\* C17: the asset_tag search comes first, and a serial search is issued only after the
\* asset_tag search was answered 200 with no row of exactly that asset_tag; an id is
\* returned only for the first row whose searched field equals the searched value, and
\* 'not found' only when no asset equals the payload in asset_tag or in serial, rows
\* that merely contain the value notwithstanding.
C17_AssetSearchOrder ==
  /\ (call.op = "asset_search" /\ call.key = "asset_tag") => ctx.fi = 1
  /\ (call.op = "asset_search" /\ call.key = "serial")
       => /\ ctx.fi = 2
          /\ SearchedOk("asset_tag", ctx.payload.asset_tag)
          /\ lastCall.id = NoId
          /\ \A r \in searchRows : r.asset_tag # ctx.payload.asset_tag
  /\ pc = "asset_update"
       => /\ SearchedOk(ctx.fields[ctx.fi].field, ctx.fields[ctx.fi].value)
          /\ lastCall.id = ctx.asset_id
          /\ \E r \in searchRows :
               /\ r.id = ctx.asset_id
               /\ r[lastCall.key] = lastCall.body.search
               /\ \A q \in searchRows : q[lastCall.key] = lastCall.body.search => r.id <= q.id
  /\ (pc = "asset_create" /\ ctx.fields # <<>>)
       => /\ SearchedOk("serial", ctx.payload.serial)
          /\ lastCall.id = NoId
          /\ \A a \in assets :
               a.asset_tag # ctx.payload.asset_tag /\ a.serial # ctx.payload.serial

\* both searches returned a row that only contains the value, and nothing was found
C17_Witness ==
  /\ pc = "asset_create"
  /\ lastCall.op = "asset_search"
  /\ lastCall.key = "serial"
  /\ searchRows # {}

\* C18: a POST /hardware is prepared or issued only after at least one existence search
\* for the payload, the last of which was answered 200 without an exact match (an
\* earlier one, if any, likewise: see C17); never after a search that failed, and never
\* without a search.
C18_NoCreateWithoutSearch ==
  call.op = "asset_create"
    => /\ ctx.fields # <<>>
       /\ lastCall.op = "asset_search"
       /\ lastCall.dev = idx
       /\ lastCall.outcome = "ok"
       /\ lastCall.id = NoId

\* C19: get_or_create_entity neither returns nor caches an absent id: a search hit or a
\* 200/201 create response without a usable id makes the call fail, with the cache as
\* it was.
C19_UsableIdsOnly ==
  /\ \A k \in DOMAIN cache : cache[k] # NoId
  /\ \A k \in KeyUniverse : NoId \notin returned[k]
  /\ lastCall.outcome = "malformed"
       => /\ ~outcomes[lastCall.dev].success
          /\ lastCall.key \notin DOMAIN cache

\* C20: once _initialize_cache has returned, no step removes a cache entry or changes
\* its id; a step that changes the cache is a get_or_create_entity call resolving its
\* own key by a search hit or a successful create, and adds exactly that key with the
\* id it resolved; a get_or_create_entity call that fails adds nothing.
C20_CacheMonotonic ==
  [][cacheInitialized
       => /\ \A k \in DOMAIN cache : k \in DOMAIN cache' /\ cache'[k] = cache[k]
          /\ cache' # cache
               => /\ pc \in {"entity_search", "entity_create"}
                  /\ DOMAIN cache' = DOMAIN cache \cup {CacheKey(ctx.etype, ctx.name)}
                  /\ CacheKey(ctx.etype, ctx.name) \notin DOMAIN cache
                  /\ lastCall'.op = pc
                  /\ lastCall'.outcome = "ok"
                  /\ lastCall'.key = CacheKey(ctx.etype, ctx.name)
                  /\ lastCall'.id = cache'[CacheKey(ctx.etype, ctx.name)]
          /\ (pc \in {"entity_search", "entity_create"} /\ Len(outcomes') > Len(outcomes))
               => cache' = cache]_vars

\* the cache holds two entries the run created, and a later get_or_create_entity call
\* has failed
C20_Witness ==
  /\ Cardinality({k \in DOMAIN cache : creates[k].ok = 1}) = 2
  /\ lastCall.op \in {"entity_search", "entity_create"}
  /\ lastCall.outcome \in {"error", "rate_limited"}
  /\ lastCall.dev = 2

CategoryKey(d) == CacheKey("categories", Get(d, "productType"))
ModelKey(d) == CacheKey("models", Get(d, "model"))
InEntityCall == pc \in {"entity_lookup", "entity_search", "entity_create"}

\* C21: while the mapper resolves the category of a device, no model or asset call has
\* been made for that device; the model is resolved only once the category's id has
\* been returned, and that id is the category_id of the model's additional fields and
\* of every model create request; a category call that fails ends the device: it is
\* counted as failed with no branch taken, and no further call is made for it.
C21_CategoryBeforeModel ==
  /\ (InEntityCall /\ ctx.etype = "categories")
       => /\ ctx.name = Get(Device, "productType")
          /\ ctx.model_id = NoId
          /\ lastCall.dev = idx => lastCall.key = CategoryKey(Device)
  /\ (InEntityCall /\ ctx.etype = "models")
       => /\ ctx.name = Get(Device, "model")
          /\ CategoryKey(Device) \in DOMAIN cache
          /\ ctx.category = cache[CategoryKey(Device)]
          /\ ctx.category \in returned[CategoryKey(Device)]
          /\ ctx.extra.category_id = ctx.category
  /\ (call.op = "entity_create" /\ ctx.etype = "models")
       => /\ call.body.name = Get(Device, "model")
          /\ call.body.category_id = cache[CategoryKey(Device)]
  /\ (/\ lastCall.op \in {"entity_search", "entity_create"}
      /\ lastCall.outcome \in {"error", "rate_limited"}
      /\ lastCall.key = CategoryKey(devices[lastCall.dev]))
       => /\ call.dev # lastCall.dev
          /\ Len(outcomes) >= lastCall.dev
          /\ ~outcomes[lastCall.dev].success
          /\ outcomes[lastCall.dev].branch = "none"
          /\ idx = lastCall.dev => pc \in {"loop", "done"}

\* the model of a device has been created after its category was
C21_Witness ==
  /\ lastCall.op = "entity_create"
  /\ lastCall.outcome = "ok"
  /\ lastCall.dev = idx
  /\ lastCall.key = ModelKey(Device)
  /\ creates[CategoryKey(Device)].ok = 1
  /\ \E e \in entities :
       e.etype = "models" /\ e.id = lastCall.id /\ e.category_id = cache[CategoryKey(Device)]

\* C22: at every point of the loop successful + failed is the number of devices
\* processed so far, each processed device having added 1 to exactly one of the two
\* (to successful iff it succeeded); total_devices is the length of the list the source
\* returned, and at the summary successful + failed = total_devices.
C22_StatisticsAccounting ==
  /\ stats.successful + stats.failed = Len(outcomes)
  /\ stats.successful = Cardinality({i \in 1..Len(outcomes) : outcomes[i].success})
  /\ stats.failed = Len(outcomes) - stats.successful
  /\ stats.total_devices = Len(devices)
  /\ pc = "done"
       => /\ stats.successful + stats.failed = stats.total_devices
          /\ stats.total_devices = Len(devices)

\* a run of two devices has ended: the first succeeded, the second got a failure result
C22_Witness ==
  /\ pc = "done"
  /\ Len(outcomes) = 2
  /\ outcomes[1].success
  /\ lastResult.kind = "result"
  /\ ~lastResult.value.success
(* ------------------------------ C23 ------------------------------------ *)
\* the call's retry loop was left on a 429 response
EndedOnRateLimit(c) == c.n429 = c.attempts

\* C23 (backoff shape): every 429 answer before the final attempt is followed by one sleep of
\* the Retry-After value (10 if the header is absent) and by the next attempt, the 429 at the
\* final attempt ends the call without a sleep, and no other answer is followed by a sleep; so
\* a call in progress has slept once per request it issued, at most twice, and a finished
\* call either took all 3 attempts and slept twice, or slept once per 429 and then got one
\* answer that is not a 429.
C23_BackoffShape ==
  /\ call.op # "none"
       => /\ call.sleeps = call.n429
          /\ call.n429 = call.attempts
          /\ call.sleeps <= MaxRetries - 1
          /\ call.sleeps > 0 => call.lastSleep \in {DefaultRetryAfter, 2}
  /\ lastCall.op # "none"
       => /\ lastCall.sleeps <= MaxRetries - 1
          /\ IF EndedOnRateLimit(lastCall)
             THEN /\ lastCall.attempts = MaxRetries
                  /\ lastCall.sleeps = MaxRetries - 1
                  /\ lastCall.outcome = "rate_limited"
             ELSE /\ lastCall.sleeps = lastCall.n429
                  /\ lastCall.attempts = lastCall.n429 + 1

(* ------------------------------ C24 ------------------------------------ *)
\* print_summary() was reached, and the loop went through the whole fetched list
SummaryReached ==
  /\ pc = "done"
  /\ summaries = 1
  /\ fetched = "ok" => Len(outcomes) = Len(devices)

\* C24 (termination): whatever the destination answers, 429 to every request included,
\* the run reaches the summary with every fetched device processed, and no retry loop (the
\* search and the create of get_or_create_entity, the search per field and the create or
\* update of post_hardware_to_snipe_it) issues more than 3 requests.
C24_Termination ==
  /\ [](call.attempts <= MaxRetries /\ lastCall.attempts <= MaxRetries)
  /\ <>SummaryReached

\* against a destination that answers only 429, a run over a full device list has reached
\* the summary, each device having failed after 3 requests
C24_Witness ==
  /\ throttled
  /\ SummaryReached
  /\ Len(devices) = MaxDevices
  /\ stats.failed = MaxDevices
  /\ lastCall.attempts = MaxRetries
  /\ lastCall.n429 = MaxRetries

====
